---- MODULE Spec2Model ----
(***************************************************************************)
(* Coin Flip Simulator (src/main.c): the menu loop of main, the input      *)
(* validation of get_valid_input, the buffer lifecycle of generate_flips,  *)
(* the table of display_flips and the run-length pass of statistics.       *)
(*                                                                         *)
(* The program is single-threaded and blocks only when it reads a line of  *)
(* standard input, so one action is the code that runs between two reads.  *)
(* Standard input is a sequence of non-empty lines that does not end.      *)
(***************************************************************************)
EXTENDS Integers, Sequences, FiniteSets, TLC

VARIABLES
    pc,            \* where the program is blocked: "menu", "gen_input",
                   \* "display_pause", "pause", or "exited"
    choice,        \* main's local `choice`
    flip_results,  \* the global pointer: NULL or the address of a block
    num_flips,     \* the global recorded length
    heap,          \* live allocations: address -> sequence of int
    exit_status,   \* the process exit status once pc = "exited"
    out,           \* messages printed by the last action
    shown,         \* table lines printed by the running/last display command
    paused_after,  \* line numbers after which display_flips called pause()
    disp_i,        \* display_flips' loop variable i while it is paused
    report,        \* what statistics printed, or NoReport
    reads,         \* element reads flip_results[i] done by the last command
    divs,          \* divisions by num_flips done by the last command
    ub,            \* undefined behaviour met so far (bad free, bad read)
    scanned,       \* history: the line last handed to scanf("%d")
    lastGen        \* history: count and outcomes of the last generation

vars == <<pc, choice, flip_results, num_flips, heap, exit_status, out, shown,
          paused_after, disp_i, report, reads, divs, ub, scanned, lastGen>>

-----------------------------------------------------------------------------
(* Program constants *)

MAX_FLIPS == 100000
MIN_FLIPS == 1
SEQUENCE_LENGTH == 5
HEADS == 0
TAILS == 1
PAUSE_INTERVAL == 20
EXIT_SUCCESS == 0
EXIT_FAILURE == 1
NULL == 0

\* main's `choice` before the first assignment, and the status of a process
\* that has not exited: values the program never produces.
NoChoice == -1
NotExited == -1

(* Bounds of the model *)

\* The flip counts typed at the generation prompt reach MaxPages full pages
\* of PAUSE_INTERVAL table lines, and one line more.
MaxPages == 2
\* Longest table shown by SpecDisplay.
MaxShown == 41
\* Counts up to this one are filled with every possible outcome sequence;
\* larger counts with the sequences of Patterns.
MaxExhaustive == 2
\* malloc returns an address in 1..MaxAddr.
MaxAddr == 2
\* Longest buffer analysed exhaustively by SpecStats.
MaxStatLen == 13

-----------------------------------------------------------------------------
(* Input lines and scanf("%d") *)

DigitChar == <<"0", "1", "2", "3", "4", "5", "6", "7", "8", "9">>

DigitVal(c) == CHOOSE d \in 0..9 : DigitChar[d + 1] = c

IsDigit(c) == \E d \in 0..9 : DigitChar[d + 1] = c

RECURSIVE Decimal(_)
Decimal(n) ==
    IF n < 10 THEN <<DigitChar[n + 1]>>
    ELSE Decimal(n \div 10) \o <<DigitChar[(n % 10) + 1]>>

Numeral(n) == IF n < 0 THEN <<"-">> \o Decimal(-n) ELSE Decimal(n)

\* The flip counts around the ends of the table's pages.
PageCounts == {k * PAUSE_INTERVAL + d : k \in 1..MaxPages, d \in {-1, 0, 1}}

\* Largest flip count typed at the generation prompt.
MaxFlips == MaxPages * PAUSE_INTERVAL + 1

\* The numbers a user types: around both ranges' ends, the small counts and
\* the counts around the ends of the table's pages.
Numbers == (-1..(MaxExhaustive + 1)) \cup PageCounts \cup {MAX_FLIPS + 1}

\* The numbers a user types with something else on the line: the menu's
\* choices "exit" and "generate", the second a flip count too.
Decorated == {0, 1}

\* The lines a user types: a number alone, a number with a leading blank or
\* a fraction, text before a number, and no number at all.
Lines ==
    {Numeral(n) : n \in Numbers}
    \cup {<<" ">> \o Numeral(n) : n \in Decorated}
    \cup {Numeral(n) \o <<".", "5">> : n \in Decorated}
    \cup {<<"x">> \o Numeral(n) : n \in Decorated}
    \cup {<<"x">>, <<"-">>}

\* The lines typed at the menu prompt: numbers around the range 0..3.
MenuLines ==
    {l \in Lines : l \in {Numeral(n) : n \in Numbers}
                       => l \in {Numeral(n) : n \in -1..4}}

\* Index of the first character at or after i that is not white space.
RECURSIVE SkipSpace(_, _)
SkipSpace(line, i) ==
    IF i <= Len(line) /\ line[i] = " " THEN SkipSpace(line, i + 1) ELSE i

\* The digits from index i on: how many there are and their decimal value.
RECURSIVE ScanDigits(_, _, _, _)
ScanDigits(line, i, n, acc) ==
    IF i <= Len(line) /\ IsDigit(line[i])
    THEN ScanDigits(line, i + 1, n + 1, acc * 10 + DigitVal(line[i]))
    ELSE [n |-> n, val |-> acc]

\* scanf("%d", &input) on one line: white space is skipped, an optional sign
\* and the longest run of digits are converted, the rest is left unread.
\* ok is "scanf returned 1".
ScanInt(line) ==
    LET i == SkipSpace(line, 1)
        signed == i <= Len(line) /\ line[i] \in {"-", "+"}
        neg == i <= Len(line) /\ line[i] = "-"
        d == ScanDigits(line, IF signed THEN i + 1 ELSE i, 0, 0)
    IN  [ok |-> d.n > 0, val |-> IF neg THEN 0 - d.val ELSE d.val]

\* One round of get_valid_input's loop on one line: the line is accepted
\* when scanf converts a number and the number is in min..max; whatever
\* follows on the line is discarded by clear_input_buffer either way.
GetValidInput(line, min, max) ==
    LET r == ScanInt(line)
    IN  [accepted |-> r.ok /\ ~(r.val < min) /\ ~(r.val > max),
         value |-> r.val]

-----------------------------------------------------------------------------
(* Messages *)

Msg(m, n) == [msg |-> m, n |-> n]

\* display_menu and main's prompt for the choice.
MenuText == <<Msg("MAIN MENU", 0), Msg("Enter your choice (0-3): ", 0)>>

\* get_valid_input's message for a rejected line.
PleaseEnter(min, max) == Msg("Please enter a number between", max - min)

NoReport == [printed |-> FALSE]

-----------------------------------------------------------------------------
(* The heap *)

Addrs == 1..MaxAddr

\* What an int of a fresh block holds before it is written, and what an
\* access outside any live block yields: no outcome of a flip.
Indeterminate == {-1, 2}

\* A released or never allocated address.
NoBlock == [live |-> FALSE, data |-> <<>>]

Live(h) == {a \in Addrs : h[a].live}

\* free(p): the block at p is released; releasing an address that holds no
\* live block (a second free, a wild pointer) is undefined behaviour.
Free(h, p) ==
    IF p \in Live(h)
    THEN [heap |-> [h EXCEPT ![p] = NoBlock], ub |-> {}]
    ELSE [heap |-> h, ub |-> {"bad free"}]

\* Lines 110-113 without the call of free: the pointer is reset only.
ReleaseOld_NoFree(h, p) == [heap |-> h, ptr |-> NULL, ub |-> {}]

\* Lines 110-113 of generate_flips: the previous buffer, if any, is released
\* and the pointer reset.
ReleaseOld(h, p) ==
    IF p /= NULL
    THEN [heap |-> Free(h, p).heap, ptr |-> NULL, ub |-> Free(h, p).ub]
    ELSE [heap |-> h, ptr |-> p, ub |-> {}]

\* Line 270 of main: the buffer, if any, is released before returning.
ReleaseAtExit(h, p) ==
    IF p /= NULL THEN Free(h, p) ELSE [heap |-> h, ub |-> {}]

\* Whether flip_results[i] (i counted from 0) lies inside a live block.
InBlock(i) ==
    flip_results \in Live(heap) /\ i + 1 \in 1..Len(heap[flip_results].data)

\* The value the program gets from flip_results[i], given the value g an
\* access outside any live block happens to yield.
Deref(i, g) == IF InBlock(i) THEN heap[flip_results].data[i + 1] ELSE g

\* What reading flip_results[0..n-1] adds to the undefined behaviour met.
ReadUB(n) == IF \A i \in 0..(n - 1) : InBlock(i) THEN {} ELSE {"bad read"}

-----------------------------------------------------------------------------
(* generate_flips *)

\* The rand() results considered for a generation of n flips.
RandValues == 0..2

Patterns(n) ==
    {[i \in 1..n |-> i % 3], [i \in 1..n |-> ((i - 1) \div 7) % 3]}

Rolls(n) == IF n <= MaxExhaustive THEN [1..n -> RandValues] ELSE Patterns(n)

\* The loop with "i < requested_flips - 1": the last int is never written.
Fill_Short(block, rolls, requested) ==
    [i \in 1..Len(block) |->
        IF i - 1 < requested - 1 THEN rolls[i] % 2 ELSE block[i]]

\* The loop of lines 122-124 on a block of `requested` ints.
Fill(block, rolls, requested) ==
    [i \in 1..Len(block) |->
        IF i - 1 < requested THEN rolls[i] % 2 ELSE block[i]]

-----------------------------------------------------------------------------
(* display_flips *)

FlipToString(flip) ==
    IF flip = HEADS THEN "HEADS"
    ELSE IF flip = TAILS THEN "TAILS"
    ELSE "UNKNOWN"

\* The table line printed for loop index i holding value v.
TableLine(i, v) == [index |-> i + 1, value |-> v, text |-> FlipToString(v)]

\* Line 164 without "i < num_flips - 1": a pause follows the last line too.
PauseDue_AlsoLast(i, n) == (i + 1) % PAUSE_INTERVAL = 0

\* Line 164: whether display_flips pauses after printing index i.
PauseDue(i, n) == (i + 1) % PAUSE_INTERVAL = 0 /\ i < n - 1

\* The loop of lines 157-165 from index i until it pauses or ends:
\* the lines printed, the index reached, and whether it stopped in pause().
RECURSIVE DisplayLoop(_, _, _, _)
DisplayLoop(i, n, g, acc) ==
    IF ~(i < n) THEN [lines |-> acc, i |-> i, paused |-> FALSE]
    ELSE LET printed == Append(acc, TableLine(i, Deref(i, g)))
         IN  IF PauseDue(i, n)
             THEN [lines |-> printed, i |-> i + 1, paused |-> TRUE]
             ELSE DisplayLoop(i + 1, n, g, printed)

-----------------------------------------------------------------------------
(* statistics *)

StatsStart ==
    [heads_sequences |-> 0, tails_sequences |-> 0,
     current_heads_streak |-> 0, current_tails_streak |-> 0,
     total_heads |-> 0, total_tails |-> 0]

\* The loop body with "streak >= SEQUENCE_LENGTH" for "streak ==
\* SEQUENCE_LENGTH": every element of a long run counts again.
StatsStep_AtLeast(s, x) ==
    IF x = HEADS
    THEN [s EXCEPT !.total_heads = @ + 1,
                   !.current_heads_streak = @ + 1,
                   !.current_tails_streak = 0,
                   !.heads_sequences =
                       IF s.current_heads_streak + 1 >= SEQUENCE_LENGTH
                       THEN @ + 1 ELSE @]
    ELSE [s EXCEPT !.total_tails = @ + 1,
                   !.current_tails_streak = @ + 1,
                   !.current_heads_streak = 0,
                   !.tails_sequences =
                       IF s.current_tails_streak + 1 >= SEQUENCE_LENGTH
                       THEN @ + 1 ELSE @]

\* The body of the loop of lines 191-207 for one element x.
StatsStep(s, x) ==
    IF x = HEADS
    THEN [s EXCEPT !.total_heads = @ + 1,
                   !.current_heads_streak = @ + 1,
                   !.current_tails_streak = 0,
                   !.heads_sequences =
                       IF s.current_heads_streak + 1 = SEQUENCE_LENGTH
                       THEN @ + 1 ELSE @]
    ELSE [s EXCEPT !.total_tails = @ + 1,
                   !.current_tails_streak = @ + 1,
                   !.current_heads_streak = 0,
                   !.tails_sequences =
                       IF s.current_tails_streak + 1 = SEQUENCE_LENGTH
                       THEN @ + 1 ELSE @]

\* The loop with "i < num_flips - 1": the last element is not counted.
RECURSIVE StatsLoop_Short(_, _, _, _)
StatsLoop_Short(s, i, n, g) ==
    IF i < n - 1 THEN StatsLoop_Short(StatsStep(s, Deref(i, g)), i + 1, n, g)
    ELSE s

RECURSIVE StatsLoop(_, _, _, _)
StatsLoop(s, i, n, g) ==
    IF i < n THEN StatsLoop(StatsStep(s, Deref(i, g)), i + 1, n, g) ELSE s

\* What statistics prints after the loop: the counters, the two quotients
\* total / num_flips * 100 (kept as the operands of the division), and the
\* sum of the two run counts.
StatsReport(s, n) ==
    [printed |-> TRUE,
     total_heads |-> s.total_heads, total_tails |-> s.total_tails,
     heads_pct |-> [num |-> s.total_heads, den |-> n],
     tails_pct |-> [num |-> s.total_tails, den |-> n],
     heads_sequences |-> s.heads_sequences,
     tails_sequences |-> s.tails_sequences,
     total_sequences |-> s.heads_sequences + s.tails_sequences]

\* statistics() without the early return of lines 185-189.
Statistics_NoGuard(n, g) ==
    [out |-> <<Msg("FLIP DISTRIBUTION:", 0),
               Msg("CONSECUTIVE SEQUENCE ANALYSIS:", 0)>>,
     report |-> StatsReport(StatsLoop(StatsStart, 0, n, g), n),
     reads |-> IF n > 0 THEN n ELSE 0, divs |-> 2]

\* statistics() as a whole, lines 177-221.
Statistics(n, g) ==
    IF n = 0
    THEN [out |-> <<Msg("No flips have been generated yet.", 0),
                    Msg("Please use option 1 to generate flips first.", 0)>>,
          report |-> NoReport, reads |-> 0, divs |-> 0]
    ELSE [out |-> <<Msg("FLIP DISTRIBUTION:", 0),
                    Msg("CONSECUTIVE SEQUENCE ANALYSIS:", 0)>>,
          report |-> StatsReport(StatsLoop(StatsStart, 0, n, g), n),
          reads |-> IF n > 0 THEN n ELSE 0, divs |-> 2]

-----------------------------------------------------------------------------
(* The state after construction: main has seeded rand, cleared the screen,   *)
(* printed the menu and waits in get_valid_input(0, 3).                      *)

\* lastGen.nth counts the generations done, up to "two or more".
NoGeneration == [count |-> 0, flips |-> <<>>, nth |-> 0]

Init ==
    /\ pc = "menu"
    /\ choice = NoChoice
    /\ flip_results = NULL
    /\ num_flips = 0
    /\ heap = [a \in Addrs |-> NoBlock]
    /\ exit_status = NotExited
    /\ out = MenuText
    /\ shown = <<>>
    /\ paused_after = {}
    /\ disp_i = 0
    /\ report = NoReport
    /\ reads = 0
    /\ divs = 0
    /\ ub = {}
    /\ scanned = <<>>
    /\ lastGen = NoGeneration

-----------------------------------------------------------------------------
(* main: the menu prompt *)

\* A line the menu prompt rejects: get_valid_input prints its message,
\* discards the line and reads again.
MenuReject(line) ==
    /\ pc = "menu"
    /\ ~GetValidInput(line, 0, 3).accepted
    /\ scanned' = line
    /\ out' = <<PleaseEnter(0, 3)>>
    /\ UNCHANGED <<pc, choice, flip_results, num_flips, heap, exit_status,
                   shown, paused_after, disp_i, report, reads, divs, ub,
                   lastGen>>

\* case 1, up to the read of the flip count in generate_flips.
MenuGenerate(line) ==
    /\ pc = "menu"
    /\ GetValidInput(line, 0, 3).accepted
    /\ GetValidInput(line, 0, 3).value = 1
    /\ scanned' = line
    /\ choice' = 1
    /\ out' = <<Msg("How many coin flips would you like to generate?", 0)>>
    /\ pc' = "gen_input"
    /\ UNCHANGED <<flip_results, num_flips, heap, exit_status, shown,
                   paused_after, disp_i, report, reads, divs, ub, lastGen>>

\* display_flips from index i with the lines `acc` already printed, until it
\* blocks in its own pause() or returns to main, which blocks in pause().
DisplayRun(i, acc) ==
    IF num_flips = 0
    THEN /\ out' = <<Msg("No flips have been generated yet.", 0)>>
         /\ pc' = "pause"
         /\ shown' = acc
         /\ reads' = 0
         /\ UNCHANGED <<paused_after, disp_i, ub>>
    ELSE \E g \in Indeterminate :
            LET d == DisplayLoop(i, num_flips, g, acc)
            IN  /\ shown' = d.lines
                /\ reads' = 2 * Len(d.lines)
                /\ ub' = ub \cup ReadUB(d.i)
                /\ IF d.paused
                   THEN /\ pc' = "display_pause"
                        /\ disp_i' = d.i
                        /\ paused_after' = paused_after \cup {d.i}
                        /\ out' = <<Msg("Press Enter to continue...", 0)>>
                   ELSE /\ pc' = "pause"
                        /\ disp_i' = 0
                        /\ paused_after' = paused_after
                        /\ out' = <<Msg("Total flips displayed:", num_flips)>>

\* case 2.
MenuDisplay(line) ==
    /\ pc = "menu"
    /\ GetValidInput(line, 0, 3).accepted
    /\ GetValidInput(line, 0, 3).value = 2
    /\ scanned' = line
    /\ choice' = 2
    /\ DisplayRun(0, <<>>)
    /\ UNCHANGED <<flip_results, num_flips, heap, exit_status, report, divs,
                   lastGen>>

\* The pause() inside display_flips returns on a line of any content.
DisplayResume ==
    /\ pc = "display_pause"
    /\ DisplayRun(disp_i, shown)
    /\ UNCHANGED <<choice, flip_results, num_flips, heap, exit_status, report,
                   divs, scanned, lastGen>>

\* case 3.
MenuStatistics(line) ==
    /\ pc = "menu"
    /\ GetValidInput(line, 0, 3).accepted
    /\ GetValidInput(line, 0, 3).value = 3
    /\ scanned' = line
    /\ choice' = 3
    /\ \E g \in Indeterminate :
          LET st == Statistics(num_flips, g)
          IN  /\ out' = st.out
              /\ report' = st.report
              /\ reads' = st.reads
              /\ divs' = st.divs
              /\ ub' = ub \cup (IF st.reads > 0 THEN ReadUB(num_flips) ELSE {})
    /\ pc' = "pause"
    /\ UNCHANGED <<flip_results, num_flips, heap, exit_status, shown,
                   paused_after, disp_i, lastGen>>

\* case 0: the loop ends, the buffer is released and main returns 0.
MenuExit(line) ==
    /\ pc = "menu"
    /\ GetValidInput(line, 0, 3).accepted
    /\ GetValidInput(line, 0, 3).value = 0
    /\ scanned' = line
    /\ choice' = 0
    /\ out' = <<Msg("Thank you for using the Coin Flip Simulator!", 0)>>
    /\ heap' = ReleaseAtExit(heap, flip_results).heap
    /\ ub' = ub \cup ReleaseAtExit(heap, flip_results).ub
    /\ pc' = "exited"
    /\ exit_status' = EXIT_SUCCESS
    /\ UNCHANGED <<flip_results, num_flips, shown, paused_after, disp_i,
                   report, reads, divs, lastGen>>

\* main's pause() after a command returns on a line of any content; the screen is
\* cleared and the menu printed again.
PauseResume ==
    /\ pc = "pause"
    /\ pc' = "menu"
    /\ out' = MenuText
    /\ shown' = <<>>
    /\ paused_after' = {}
    /\ report' = NoReport
    /\ reads' = 0
    /\ divs' = 0
    /\ UNCHANGED <<choice, flip_results, num_flips, heap, exit_status, disp_i,
                   ub, scanned, lastGen>>

-----------------------------------------------------------------------------
(* generate_flips: the prompt for the count *)

\* The lines typed at the count prompt: a count the prompt accepts is at
\* most MaxFlips.
CountLines ==
    {l \in Lines : GetValidInput(l, MIN_FLIPS, MAX_FLIPS).accepted
                       => GetValidInput(l, MIN_FLIPS, MAX_FLIPS).value <= MaxFlips}

GenReject(line) ==
    /\ pc = "gen_input"
    /\ ~GetValidInput(line, MIN_FLIPS, MAX_FLIPS).accepted
    /\ scanned' = line
    /\ out' = <<PleaseEnter(MIN_FLIPS, MAX_FLIPS)>>
    /\ UNCHANGED <<pc, choice, flip_results, num_flips, heap, exit_status,
                   shown, paused_after, disp_i, report, reads, divs, ub,
                   lastGen>>

\* Line 249 with "+=" for "=": the counts add up.
NewLength_Added(old, requested) == old + requested

\* Line 249 of main: the recorded length after a generation that returned
\* `requested`.
NewLength(old, requested) == requested

\* Line 119 with exit(EXIT_SUCCESS).
AllocFailStatus_Success == EXIT_SUCCESS

\* Line 119: the status generate_flips exits with when malloc fails.
AllocFailStatus == EXIT_FAILURE

\* Lines 110-126 and 249-250 when malloc returns a block.
GenOk(line) ==
    /\ pc = "gen_input"
    /\ GetValidInput(line, MIN_FLIPS, MAX_FLIPS).accepted
    /\ LET requested == GetValidInput(line, MIN_FLIPS, MAX_FLIPS).value
           old == ReleaseOld(heap, flip_results)
       IN  \E a \in Addrs \ Live(old.heap), junk \in Indeterminate,
              rolls \in Rolls(requested) :
              LET fresh == [i \in 1..requested |-> junk]
                  block == Fill(fresh, rolls, requested)
              IN  /\ heap' = [old.heap EXCEPT ![a] = [live |-> TRUE, data |-> block]]
                  /\ flip_results' = a
                  /\ num_flips' = NewLength(num_flips, requested)
                  /\ ub' = ub \cup old.ub
                  /\ lastGen' = [count |-> requested,
                                 flips |-> [i \in 1..requested |-> rolls[i] % 2],
                                 nth |-> IF lastGen.nth < 2 THEN lastGen.nth + 1
                                         ELSE lastGen.nth]
                  /\ out' = IF NewLength(num_flips, requested) > 0
                            THEN <<Msg("Successfully generated coin flips!",
                                       NewLength(num_flips, requested))>>
                            ELSE <<>>
    /\ scanned' = line
    /\ pc' = "pause"
    /\ UNCHANGED <<choice, exit_status, shown, paused_after, disp_i, report,
                   reads, divs>>

\* Lines 110-120 when malloc returns NULL: the message goes to stderr and
\* exit(EXIT_FAILURE) ends the process inside generate_flips.
GenAllocFail(line) ==
    /\ pc = "gen_input"
    /\ GetValidInput(line, MIN_FLIPS, MAX_FLIPS).accepted
    /\ LET old == ReleaseOld(heap, flip_results)
       IN  /\ heap' = old.heap
           /\ flip_results' = NULL
           /\ ub' = ub \cup old.ub
    /\ scanned' = line
    /\ out' = <<Msg("Memory allocation error!", 0)>>
    /\ pc' = "exited"
    /\ exit_status' = AllocFailStatus
    /\ UNCHANGED <<choice, num_flips, shown, paused_after, disp_i, report,
                   reads, divs, lastGen>>

-----------------------------------------------------------------------------
(* The program *)

Next ==
    \/ \E line \in MenuLines : MenuReject(line)
    \/ \E line \in MenuLines : MenuGenerate(line)
    \/ \E line \in MenuLines : MenuDisplay(line)
    \/ \E line \in MenuLines : MenuStatistics(line)
    \/ \E line \in MenuLines : MenuExit(line)
    \/ DisplayResume
    \/ PauseResume
    \/ \E line \in CountLines : GenReject(line)
    \/ \E line \in CountLines : GenOk(line)
    \/ \E line \in CountLines : GenAllocFail(line)

Spec == Init /\ [][Next]_vars

-----------------------------------------------------------------------------
(* The analysis and the table on their own: the program waits at the menu   *)
(* with a buffer it has generated, and the one command is given.            *)

Outcomes == {HEADS, TAILS}

\* The state at the menu after buf was generated and the pause acknowledged.
AtMenuWith(buf) ==
    /\ pc = "menu"
    /\ choice = 1
    /\ flip_results = 1
    /\ num_flips = Len(buf)
    /\ heap = [a \in Addrs |->
                  IF a = 1 THEN [live |-> TRUE, data |-> buf] ELSE NoBlock]
    /\ exit_status = NotExited
    /\ out = MenuText
    /\ shown = <<>>
    /\ paused_after = {}
    /\ disp_i = 0
    /\ report = NoReport
    /\ reads = 0
    /\ divs = 0
    /\ ub = {}
    /\ scanned = Numeral(Len(buf))
    /\ lastGen = [count |-> Len(buf), flips |-> buf, nth |-> 1]

InitStats == \E n \in 1..MaxStatLen : \E buf \in [1..n -> Outcomes] : AtMenuWith(buf)

NextStats ==
    \/ \E line \in {Numeral(3)} : MenuStatistics(line)
    \/ PauseResume

SpecStats == InitStats /\ [][NextStats]_vars

InitDisplay ==
    \E n \in 1..MaxShown : \E rolls \in Patterns(n) :
        AtMenuWith([i \in 1..n |-> rolls[i] % 2])

NextDisplay ==
    \/ \E line \in {Numeral(2)} : MenuDisplay(line)
    \/ DisplayResume
    \/ PauseResume

SpecDisplay == InitDisplay /\ [][NextDisplay]_vars

\* The buffer the session holds.
Buffer == heap[flip_results].data

-----------------------------------------------------------------------------
(* Properties *)

\* The positions where a maximal run of v of length at least 5 begins.
LongRuns(buf, v) ==
    {i \in 1..Len(buf) :
        /\ i = 1 \/ buf[i - 1] /= v
        /\ i + 4 <= Len(buf)
        /\ \A k \in 0..4 : buf[i + k] = v}

Count(buf, v) == Cardinality({i \in 1..Len(buf) : buf[i] = v})

StatsDone == pc = "pause" /\ choice = 3 /\ report.printed

C2_Totals ==
    StatsDone =>
        /\ report.total_heads + report.total_tails = num_flips
        /\ num_flips = Len(Buffer)
        /\ report.total_heads = Count(Buffer, HEADS)
        /\ report.total_tails = Count(Buffer, TAILS)

\* A buffer holding both outcomes has been analysed.
C2_Witness ==
    /\ StatsDone
    /\ report.total_heads = 3
    /\ report.total_tails = 4
    /\ num_flips = 7

\* The session holds no buffer.
Absent == flip_results = NULL /\ num_flips = 0 /\ Live(heap) = {}

\* The session holds a buffer of the last accepted count of outcomes.
Holding ==
    /\ flip_results \in Live(heap)
    /\ lastGen.nth >= 1
    /\ num_flips = lastGen.count
    /\ Len(Buffer) = lastGen.count
    /\ 1 <= num_flips /\ num_flips <= 100000
    /\ \A i \in 1..Len(Buffer) : Buffer[i] \in {HEADS, TAILS}

\* C3: wherever a menu command is accepted, the session is absent (no
\* buffer, recorded length 0) or holds a buffer of exactly the last accepted
\* count of outcomes, num_flips being that count, in 1..100000, and every
\* element HEADS or TAILS.
C3_SessionShape == pc = "menu" => (Absent /\ lastGen.nth = 0) \/ Holding

\* The menu is shown after a second generation, of three flips.
C3_Witness ==
    pc = "menu" /\ lastGen.nth = 2 /\ num_flips = 3 /\ Len(Buffer) = 3

\* C5: with no buffer generated (recorded length 0) the display command and
\* the statistics command report that there is no data and return without
\* reading a buffer element and without dividing by the length.
C5_EmptyQuery ==
    (pc = "pause" /\ choice \in {2, 3} /\ num_flips = 0) =>
        /\ out[1] = Msg("No flips have been generated yet.", 0)
        /\ reads = 0
        /\ divs = 0
        /\ shown = <<>>
        /\ report = NoReport
        /\ ub = {}

\* statistics has returned on an absent buffer.
C5_Witness == pc = "pause" /\ choice = 3 /\ num_flips = 0 /\ flip_results = NULL

\* C6: a generation replaces the buffer entirely: after a second generation
\* the recorded length is the second count, and every element stored, shown
\* or analysed is an outcome of the second generation.
C6_Replaced ==
    (lastGen.nth >= 1 /\ pc /= "exited") =>
        /\ flip_results \in Live(heap)
        /\ num_flips = lastGen.count
        /\ Buffer = lastGen.flips
        /\ \A k \in 1..Len(shown) :
              /\ k <= lastGen.count
              /\ shown[k].value = lastGen.flips[k]
        /\ report.printed =>
              /\ report.total_heads = Count(lastGen.flips, HEADS)
              /\ report.total_tails = Count(lastGen.flips, TAILS)
              /\ report.heads_pct.den = lastGen.count
              /\ report.tails_pct.den = lastGen.count

\* The statistics of a second generation, shorter than the first, are shown.
C6_Witness ==
    /\ lastGen.nth = 2
    /\ StatsDone
    /\ num_flips = 2
    /\ report.total_heads = 2

\* C7: the process exits with status 0 exactly when it ends through menu
\* option 0, and with a non-zero status only when the storage of a requested
\* generation cannot be obtained; it then ends inside the generation command,
\* without returning to the menu loop, and the session references no buffer.
C7_ExitStatus ==
    pc = "exited" =>
        /\ exit_status = 0 <=> choice = 0
        /\ exit_status /= 0 =>
              /\ choice = 1
              /\ out = <<Msg("Memory allocation error!", 0)>>
              /\ flip_results = NULL
              /\ Live(heap) = {}

\* The allocation of a second generation has failed.
C7_Witness ==
    /\ pc = "exited"
    /\ exit_status = 1
    /\ lastGen.nth = 1
    /\ flip_results = NULL

\* C10: the storage of the buffer is released when a new generation replaces
\* it and when the program ends through option 0: at most one allocation is
\* live, none is released twice, no released buffer is read, and none is
\* live when the program has ended normally.
C10_Lifetime ==
    /\ Cardinality(Live(heap)) <= 1
    /\ ub = {}
    /\ pc /= "exited" => (Live(heap) = IF flip_results = NULL THEN {} ELSE {flip_results})
    /\ (pc = "exited" /\ exit_status = 0) => Live(heap) = {}

\* The program has ended through option 0 after two generations.
C10_Witness ==
    /\ pc = "exited"
    /\ exit_status = 0
    /\ lastGen.nth = 2
    /\ flip_results /= NULL

\* The table line of flip k of the buffer.
ExpectedLine(k) ==
    [index |-> k, value |-> Buffer[k],
     text |-> IF Buffer[k] = 0 THEN "HEADS" ELSE "TAILS"]

\* C9: the display command on a buffer of n >= 1 flips prints every flip
\* once, in order, with its 1-based index, and pauses after line k exactly
\* when k is a multiple of 20 and k < n: no pause follows the last line.
C9_Table ==
    /\ (pc = "pause" /\ choice = 2 /\ num_flips >= 1) =>
          /\ shown = [k \in 1..num_flips |-> ExpectedLine(k)]
          /\ paused_after = {k \in 1..num_flips : k % 20 = 0 /\ k < num_flips}
    /\ pc = "display_pause" =>
          /\ shown = [k \in 1..disp_i |-> ExpectedLine(k)]
          /\ disp_i % 20 = 0
          /\ disp_i < num_flips
          /\ paused_after = {k \in 1..disp_i : k % 20 = 0}

\* A table of 40 lines has been shown with one pause, after line 20.
C9_Witness ==
    /\ pc = "pause"
    /\ choice = 2
    /\ num_flips = 40
    /\ Len(shown) = 40
    /\ paused_after = {20}

\* Whether a line is an integer: an optional sign and digits, after optional
\* blanks, and nothing else.
IsIntegerLine(l) ==
    LET i == SkipSpace(l, 1)
        j == IF i <= Len(l) /\ l[i] \in {"-", "+"} THEN i + 1 ELSE i
    IN  j <= Len(l) /\ \A k \in j..Len(l) : IsDigit(l[k])

\* The integer an integer line denotes.
IntegerOf(l) == ScanInt(l).val

\* C4: at the prompt of the generate command a flip count outside 1..100000
\* and a non-integer input are rejected with a new prompt, and the stored
\* buffer and its recorded length stay as they were before the command.
C4_BadCountRejected ==
    [][(/\ pc = "gen_input"
        /\ \/ ~IsIntegerLine(scanned')
           \/ IntegerOf(scanned') < 1
           \/ IntegerOf(scanned') > 100000)
       => /\ pc' = "gen_input"
          /\ out' = <<PleaseEnter(1, 100000)>>
          /\ UNCHANGED <<flip_results, num_flips, heap>>]_vars

\* C8: at the menu prompt an integer other than 0, 1, 2, 3 and a non-integer
\* input are answered by a message and a new prompt, and change nothing: the
\* stored buffer and its recorded length stay and no command is dispatched.
C8_BadChoiceIgnored ==
    [][(/\ pc = "menu"
        /\ \/ ~IsIntegerLine(scanned')
           \/ IntegerOf(scanned') \notin {0, 1, 2, 3})
       => /\ pc' = "menu"
          /\ out' = <<PleaseEnter(0, 3)>>
          /\ UNCHANGED <<choice, flip_results, num_flips, heap>>]_vars

====
